---- MODULE Spec2Model ----
(***************************************************************************)
(* Concurrent (domain-partitioned) PageRank and its sequential reference.  *)
(*                                                                         *)
(* Strings.  A URL is a sequence of tokens: "." is a token, the runs        *)
(* "http://", "https://", "calpoly", "edu", "www", "ieee", "org" are       *)
(* tokens, and every other token is one letter.  No token is a proper      *)
(* suffix of another and only "." contains a dot, so on these URLs the     *)
(* token-level Split / Replace / Contains below agree with Go's            *)
(* byte-level ones.  A line of the dot file is a sequence of URL tokens    *)
(* and of the tokens "->", " " and ";".                                    *)
(*                                                                         *)
(* Numbers.  A float32 rank is a fixed-point number with Scale units to    *)
(* 1.0; every arithmetic operation is the exact operation followed by      *)
(* truncation to a unit.  A division by zero yields NonFinite (+Inf or     *)
(* NaN), which every later operation propagates and no comparison          *)
(* accepts.  Products are computed limb-wise so that no intermediate       *)
(* value leaves the 32-bit integers.                                       *)
(*                                                                         *)
(* Maps.  A Go map is a function whose DOMAIN is its key set; reading a    *)
(* missing key gives the zero value (Get).                                 *)
(***************************************************************************)
EXTENDS Integers, Sequences, FiniteSets, TLC

\* ------------------------------------------------------------ bounds
\* Longest input edge stream of the interleaved runs (Spec).
MaxEdges == 2
\* Longest input edge stream of the one-goroutine-at-a-time runs (SerialSpec).
MaxSerialEdges == 2
\* Longest input edge stream of the one-domain runs (PairSpec).
MaxPairEdges == 2
\* Longest input edge stream of the runs on unusual host names (KeySpec).
MaxKeyEdges == 2
\* Longest dot file of the runs on arbitrary lines (LineSpec).
MaxLines == 2
\* Longest list of links a page yields, and longest initial worklist (CrawlSpec).
MaxLinks == 2
\* Largest depth passed to concurrent.go's breadthFirst (CrawlSpec).
MaxDepth == 2

\* ------------------------------------------------------------ strings
Http == "http://"
Https == "https://"
Dot == "."
Calpoly == "calpoly"
Edu == "edu"
Arrow == "->"
Space == " "
Semi == ";"

\* Go: domain + ".calpoly.edu"
DomainSuffix == <<Dot, Calpoly, Dot, Edu>>

Range(s) == {s[i] : i \in 1..Len(s)}

\* Go: strings.Contains(s, sub)
Contains(s, sub) ==
    \E i \in 1..(Len(s) - Len(sub) + 1) : SubSeq(s, i, i + Len(sub) - 1) = sub

\* Go: strings.Split(s, ".")
RECURSIVE SplitDot(_)
SplitDot(s) ==
    IF \A i \in 1..Len(s) : s[i] # Dot
    THEN <<s>>
    ELSE LET i == CHOOSE k \in 1..Len(s) :
                      s[k] = Dot /\ \A j \in 1..(k - 1) : s[j] # Dot
         IN  <<SubSeq(s, 1, i - 1)>> \o SplitDot(SubSeq(s, i + 1, Len(s)))

\* Go: strings.Split(s, sep) for a one-token separator
RECURSIVE Split(_, _)
Split(s, sep) ==
    IF \A i \in 1..Len(s) : s[i] # sep
    THEN <<s>>
    ELSE LET i == CHOOSE k \in 1..Len(s) :
                      s[k] = sep /\ \A j \in 1..(k - 1) : s[j] # sep
         IN  <<SubSeq(s, 1, i - 1)>> \o Split(SubSeq(s, i + 1, Len(s)), sep)

\* Go: strings.TrimSpace(s)
RECURSIVE TrimSpace(_)
TrimSpace(s) ==
    IF s = <<>> THEN s
    ELSE IF Head(s) = Space THEN TrimSpace(Tail(s))
    ELSE IF s[Len(s)] = Space THEN TrimSpace(SubSeq(s, 1, Len(s) - 1))
    ELSE s

\* Go: strings.Replace(s, tok, "", -1) for a one-token needle
RemoveAll(s, tok) == SelectSeq(s, LAMBDA t : t # tok)

\* Variant: the key is the first label of the host name.
DomainsOfSrcFirstLabel(src) ==
    LET domains == SplitDot(src)
    IN  {RemoveAll(RemoveAll(domains[1], Https), Http) :
            idx \in {k \in 2..Len(domains) : domains[k] = <<Calpoly>>}}

\* The keys one source URL adds to visitedDomain.
DomainsOfSrc(src) ==
    LET domains == SplitDot(src)
    IN  {RemoveAll(RemoveAll(domains[idx - 1], Https), Http) :
            idx \in {k \in 2..Len(domains) : domains[k] = <<Calpoly>>}}

\* Variant: the scan takes keys from the destination of a line as well.
VisitedDomainWithDest(edgeStream) ==
    {<<>>} \cup UNION {DomainsOfSrc(edgeStream[i].src) \cup DomainsOfSrc(edgeStream[i].dest) :
                          i \in 1..Len(edgeStream)}

\* The key set of visitedDomain when the scan ends.
VisitedDomain(edgeStream) ==
    {<<>>} \cup UNION {DomainsOfSrc(edgeStream[i].src) : i \in 1..Len(edgeStream)}

\* All orders in which ranging over a Go map can enumerate a key set.
Orders(S) ==
    {f \in [1..Cardinality(S) -> S] : \A i, j \in 1..Cardinality(S) : f[i] = f[j] => i = j}

isDomain(src, domain) == Contains(src, domain \o DomainSuffix)

\* ------------------------------------------------------------ float32
Chunk == 32
Half == Chunk * Chunk
Scale == Half * Half
One == Scale
NonFinite == 0 - (Half * Scale)
MaxFloat32 == (Half - 1) * Scale

\* d and epsilon as passed by localizedPageRank and main.
Damping == (9 * Scale) \div 10
Epsilon == Scale \div 10000

\* The maximum-iteration cap the design asks of the engine (configurable).
MaxIterations == 10

IsFinite(x) == x # NonFinite
IntToF(n) == n * Scale

FAdd(a, b) == IF IsFinite(a) /\ IsFinite(b) THEN a + b ELSE NonFinite
FSub(a, b) == IF IsFinite(a) /\ IsFinite(b) THEN a - b ELSE NonFinite
FAbs(a) == IF ~IsFinite(a) THEN NonFinite ELSE IF a < 0 THEN 0 - a ELSE a
FLess(a, b) == IsFinite(a) /\ IsFinite(b) /\ a < b

\* floor(a * b / Scale) for 0 <= a, b <= Scale
FMul(a, b) ==
    IF ~(IsFinite(a) /\ IsFinite(b)) THEN NonFinite
    ELSE LET bh == b \div Half
             bl == b % Half
         IN  (a * bh + ((a * bl) \div Half)) \div Half

\* floor(r * Chunk^k / s) for 0 <= r < s
RECURSIVE LongDiv(_, _, _, _)
LongDiv(r, s, k, weight) ==
    IF k = 0 THEN 0
    ELSE LET t == r * Chunk
             w == weight \div Chunk
         IN  (t \div s) * w + LongDiv(t % s, s, k - 1, w)

\* floor(a * Scale / b) for a, b >= 0; x / 0 is +Inf or NaN
FDiv(a, b) ==
    IF ~(IsFinite(a) /\ IsFinite(b)) \/ b = 0 THEN NonFinite
    ELSE (a \div b) * Scale + LongDiv(a % b, b, 4, Scale)

\* ------------------------------------------------------------ maps
Get(m, k, zero) == IF k \in DOMAIN m THEN m[k] ELSE zero
Put(m, k, v) == [x \in (DOMAIN m) \cup {k} |-> IF x = k THEN v ELSE m[x]]
EmptyMap == [x \in {} |-> 0]

\* ------------------------------------------------------------ Subgraph
\* newSubgraph(): no nodes, four empty maps.  iters and divs are history
\* fields: the number of loop passes of pageRank and the number of float
\* divisions executed on this graph so far.
newSubgraph ==
    [domainName |-> <<>>, nodes |-> <<>>, adjacencyList |-> EmptyMap,
     outLinks |-> EmptyMap, pageRankOld |-> EmptyMap, pageRankNew |-> EmptyMap,
     iters |-> 0, divs |-> 0]

RECURSIVE SumOver(_, _)
SumOver(m, keys) ==
    IF keys = {} THEN 0
    ELSE LET k == CHOOSE x \in keys : TRUE
         IN  FAdd(m[k], SumOver(m, keys \ {k}))

\* distance(pageRankOld, pageRankNew): the L1 norm of the difference
distance(old, new) ==
    IF Cardinality(DOMAIN old) # Cardinality(DOMAIN new) THEN MaxFloat32
    ELSE SumOver([k \in DOMAIN old |-> FAbs(FSub(old[k], Get(new, k, 0)))], DOMAIN old)

deepCopyMap(m) == [k \in DOMAIN m |-> m[k]]

\* Variant: (1 - d) without the division by the number of nodes.
randClickProbUnscaled(subGraph, d) == FSub(One, d)

randClickProb(subGraph, d) ==
    FMul(FSub(One, d), FDiv(One, IntToF(Len(subGraph.nodes))))

\* prestige += pageRankOld[inNode] / float32(outLinks[inNode]), inNode by inNode
RECURSIVE Prestige(_, _, _)
Prestige(subGraph, inNodes, i) ==
    IF i > Len(inNodes) THEN 0
    ELSE FAdd(FDiv(Get(subGraph.pageRankOld, inNodes[i], 0),
                   IntToF(Get(subGraph.outLinks, inNodes[i], 0))),
              Prestige(subGraph, inNodes, i + 1))

\* Variant: pageRankOld is the map pageRankNew itself, not a copy, so the sum
\* reads ranks already rewritten in this pass.
hyperLinkClickInPlace(subGraph, node, d) ==
    IF node \in DOMAIN subGraph.adjacencyList
    THEN FMul(d, Prestige([subGraph EXCEPT !.pageRankOld = subGraph.pageRankNew],
                          subGraph.adjacencyList[node], 1))
    ELSE FMul(d, 0)

hyperLinkClick(subGraph, node, d) ==
    IF node \in DOMAIN subGraph.adjacencyList
    THEN FMul(d, Prestige(subGraph, subGraph.adjacencyList[node], 1))
    ELSE FMul(d, 0)

\* Variant: the ranks are left as the update loop wrote them.
normalizePageRankNewSkipped(subGraph) == subGraph

normalizePageRankNew(subGraph) ==
    LET sum == SumOver(subGraph.pageRankNew, DOMAIN subGraph.pageRankNew)
    IN  [subGraph EXCEPT
            !.pageRankNew = [k \in DOMAIN subGraph.pageRankNew |->
                                FDiv(subGraph.pageRankNew[k], sum)],
            !.divs = @ + Cardinality(DOMAIN subGraph.pageRankNew)]

\* for _, url := range subGraph.nodes { pageRankNew[url] = randomClick + hyperLinkClick }
RECURSIVE UpdateRanks(_, _, _)
UpdateRanks(subGraph, d, i) ==
    IF i > Len(subGraph.nodes) THEN subGraph
    ELSE LET url == subGraph.nodes[i]
             inCount == Len(Get(subGraph.adjacencyList, url, <<>>))
         IN  UpdateRanks(
                 [subGraph EXCEPT
                     !.pageRankNew = Put(@, url, FAdd(randClickProb(subGraph, d),
                                                      hyperLinkClick(subGraph, url, d))),
                     !.divs = @ + 1 + inCount],
                 d, i + 1)

\* One pass of the body of pageRank's for loop, up to the convergence test.
PageRankPass(subGraph, d) ==
    normalizePageRankNew(
        UpdateRanks([subGraph EXCEPT !.pageRankOld = deepCopyMap(subGraph.pageRankNew),
                                     !.iters = @ + 1],
                    d, 1))

\* The test that ends the loop.
Converged(subGraph, epsilon) ==
    FLess(distance(subGraph.pageRankOld, subGraph.pageRankNew), epsilon)

\* pageRank(subGraph, d, epsilon), run to its break
RECURSIVE pageRank(_, _, _)
pageRank(subGraph, d, epsilon) ==
    LET g == PageRankPass(subGraph, d)
    IN  IF Converged(g, epsilon) THEN g ELSE pageRank(g, d, epsilon)

\* Variant: 1/numNodes computed once, ahead of the loop.
initPageRankHoisted(subGraph) ==
    LET inv == FDiv(One, IntToF(Len(subGraph.nodes)))
    IN  [subGraph EXCEPT
            !.pageRankNew = [u \in (DOMAIN @) \cup Range(subGraph.nodes) |->
                                IF u \in Range(subGraph.nodes) THEN inv ELSE @[u]],
            !.divs = @ + 1]

RECURSIVE InitLoop(_, _)
InitLoop(subGraph, i) ==
    IF i > Len(subGraph.nodes) THEN subGraph
    ELSE InitLoop(
             [subGraph EXCEPT
                 !.pageRankNew = Put(@, subGraph.nodes[i],
                                     FDiv(One, IntToF(Len(subGraph.nodes)))),
                 !.divs = @ + 1],
             i + 1)

initPageRank(subGraph) == InitLoop(subGraph, 1)

\* ------------------------------------------------------------ partitioner
\* Variant: the out-link is counted on the destination.
AddEdgeCountsDest(scan, src, dest) ==
    LET g0 == scan.g
        g1 == IF src \in scan.visitedURL THEN g0
              ELSE [g0 EXCEPT !.nodes = Append(@, src), !.outLinks = Put(@, src, 0)]
        v1 == scan.visitedURL \cup {src}
        g2 == IF dest \in v1 THEN g1 ELSE [g1 EXCEPT !.nodes = Append(@, dest)]
        g3 == [g2 EXCEPT !.adjacencyList =
                            Put(@, dest, Append(Get(@, dest, <<>>), src))]
        g4 == [g3 EXCEPT !.outLinks = Put(@, dest, Get(@, dest, 0) + 1)]
    IN  [g |-> g4, visitedURL |-> v1 \cup {dest}]

\* Variant: a destination seen for the first time gets outLinks[dest] = 0.
AddEdgeInitDest(scan, src, dest) ==
    LET g0 == scan.g
        g1 == IF src \in scan.visitedURL THEN g0
              ELSE [g0 EXCEPT !.nodes = Append(@, src), !.outLinks = Put(@, src, 0)]
        v1 == scan.visitedURL \cup {src}
        g2 == IF dest \in v1 THEN g1
              ELSE [g1 EXCEPT !.nodes = Append(@, dest), !.outLinks = Put(@, dest, 0)]
        g3 == [g2 EXCEPT !.adjacencyList =
                            Put(@, dest, Append(Get(@, dest, <<>>), src))]
        g4 == [g3 EXCEPT !.outLinks = Put(@, src, Get(@, src, 0) + 1)]
    IN  [g |-> g4, visitedURL |-> v1 \cup {dest}]

\* Variant: a source already in the incoming list of dest is not appended again.
AddEdgeNoRepeat(scan, src, dest) ==
    LET g0 == scan.g
        g1 == IF src \in scan.visitedURL THEN g0
              ELSE [g0 EXCEPT !.nodes = Append(@, src), !.outLinks = Put(@, src, 0)]
        v1 == scan.visitedURL \cup {src}
        g2 == IF dest \in v1 THEN g1 ELSE [g1 EXCEPT !.nodes = Append(@, dest)]
        g3 == [g2 EXCEPT !.adjacencyList =
                            Put(@, dest, IF src \in Range(Get(@, dest, <<>>))
                                         THEN Get(@, dest, <<>>)
                                         ELSE Append(Get(@, dest, <<>>), src))]
        g4 == [g3 EXCEPT !.outLinks = Put(@, src, Get(@, src, 0) + 1)]
    IN  [g |-> g4, visitedURL |-> v1 \cup {dest}]

\* The body of the scan loop for one edge line: scan = [g, visitedURL].
AddEdge(scan, src, dest) ==
    LET g0 == scan.g
        seenSrc == src \in scan.visitedURL
        g1 == IF seenSrc THEN g0
              ELSE [g0 EXCEPT !.nodes = Append(@, src), !.outLinks = Put(@, src, 0)]
        v1 == scan.visitedURL \cup {src}
        seenDest == dest \in v1
        g2 == IF seenDest THEN g1 ELSE [g1 EXCEPT !.nodes = Append(@, dest)]
        v2 == v1 \cup {dest}
        g3 == [g2 EXCEPT !.adjacencyList =
                            Put(@, dest, Append(Get(@, dest, <<>>), src))]
        g4 == [g3 EXCEPT !.outLinks = Put(@, src, Get(@, src, 0) + 1)]
    IN  [g |-> g4, visitedURL |-> v2]

RECURSIVE ScanByDomain(_, _, _, _)
ScanByDomain(scan, edgeStream, i, domain) ==
    IF i > Len(edgeStream) THEN scan
    ELSE LET e == edgeStream[i]
         IN  ScanByDomain(IF Contains(e.src, domain \o DomainSuffix)
                          THEN AddEdge(scan, e.src, e.dest)
                          ELSE scan,
                          edgeStream, i + 1, domain)

readDotFileByDomain(edgeStream, domain) ==
    ScanByDomain([g |-> [newSubgraph EXCEPT !.domainName = domain], visitedURL |-> {}],
                 edgeStream, 1, domain).g

\* The sequential program's scan: every edge line, no domain test.
RECURSIVE ScanAll(_, _, _)
ScanAll(scan, edgeStream, i) ==
    IF i > Len(edgeStream) THEN scan
    ELSE ScanAll(AddEdge(scan, edgeStream[i].src, edgeStream[i].dest), edgeStream, i + 1)

readDotFile(edgeStream) ==
    ScanAll([g |-> newSubgraph, visitedURL |-> {}], edgeStream, 1).g

\* The sequential program: readDotFile, initPageRank, pageRank(0.9, 0.0001).
SequentialMain(edgeStream) ==
    pageRank(initPageRank(readDotFile(edgeStream)), Damping, Epsilon)

\* The head of the scan loop, shared by getDomains, readDotFileByDomain and
\* readDotFile: s := strings.Split(line, "->"); if len(s) == 2 { src, dest }.
\* The result is the sequence of (src, dest) pairs of the lines that pass.
RECURSIVE ParseFile(_, _)
ParseFile(file, i) ==
    IF i > Len(file) THEN <<>>
    ELSE LET s == Split(file[i], Arrow)
         IN  (IF Len(s) = 2
              THEN <<[src |-> TrimSpace(s[1]),
                      dest |-> TrimSpace(RemoveAll(s[2], Semi))]>>
              ELSE <<>>) \o ParseFile(file, i + 1)

\* ------------------------------------------------------------ merger
\* Variant: the first loop takes every node of a partition, without the
\* isDomain test.
RECURSIVE MergeNodesOfUnfiltered(_, _, _)
MergeNodesOfUnfiltered(acc, subgraph, j) ==
    IF j > Len(subgraph.nodes) THEN acc
    ELSE LET url == subgraph.nodes[j]
         IN  MergeNodesOfUnfiltered(
                 IF url \notin acc.visitedURL
                 THEN [nodes |-> Append(acc.nodes, url),
                       visitedURL |-> acc.visitedURL \cup {url}]
                 ELSE acc,
                 subgraph, j + 1)

\* First loop: the nodes list, partition by partition, node by node.
RECURSIVE MergeNodesOf(_, _, _)
MergeNodesOf(acc, subgraph, j) ==
    IF j > Len(subgraph.nodes) THEN acc
    ELSE LET url == subgraph.nodes[j]
         IN  MergeNodesOf(
                 IF isDomain(url, subgraph.domainName) /\ url \notin acc.visitedURL
                 THEN [nodes |-> Append(acc.nodes, url),
                       visitedURL |-> acc.visitedURL \cup {url}]
                 ELSE acc,
                 subgraph, j + 1)

\* Variant: the first loop without the visitedURL test.
RECURSIVE MergeNodesRepeating(_, _, _)
MergeNodesRepeating(acc, subgraphs, i) ==
    IF i > Len(subgraphs) THEN acc
    ELSE MergeNodesRepeating(
             [nodes |-> acc.nodes \o SelectSeq(subgraphs[i].nodes,
                                    LAMBDA url : isDomain(url, subgraphs[i].domainName)),
              visitedURL |-> acc.visitedURL],
             subgraphs, i + 1)

RECURSIVE MergeNodes(_, _, _)
MergeNodes(acc, subgraphs, i) ==
    IF i > Len(subgraphs) THEN acc
    ELSE MergeNodes(MergeNodesOf(acc, subgraphs[i], 1), subgraphs, i + 1)

\* Variant: no visitedURL test, so the last partition's entry stays.
RECURSIVE MergeMapLastWins(_, _, _, _)
MergeMapLastWins(acc, subgraphs, field, i) ==
    IF i > Len(subgraphs) THEN acc
    ELSE LET m == subgraphs[i][field]
             own == {url \in DOMAIN m : isDomain(url, subgraphs[i].domainName)}
         IN  MergeMapLastWins([map |-> [url \in (DOMAIN acc.map) \cup own |->
                                           IF url \in own THEN m[url] ELSE acc.map[url]],
                               visitedURL |-> acc.visitedURL \cup own],
                              subgraphs, field, i + 1)

\* The other three loops: one map (field) of every partition in turn; within a
\* partition the keys are distinct, so the order of ranging over them is
\* immaterial.
RECURSIVE MergeMap(_, _, _, _)
MergeMap(acc, subgraphs, field, i) ==
    IF i > Len(subgraphs) THEN acc
    ELSE LET m == subgraphs[i][field]
             fresh == {url \in DOMAIN m :
                          isDomain(url, subgraphs[i].domainName) /\ url \notin acc.visitedURL}
         IN  MergeMap([map |-> [url \in (DOMAIN acc.map) \cup fresh |->
                                   IF url \in fresh THEN m[url] ELSE acc.map[url]],
                       visitedURL |-> acc.visitedURL \cup fresh],
                      subgraphs, field, i + 1)

combineSubgraphs(subgraphs) ==
    LET start == [map |-> EmptyMap, visitedURL |-> {}]
    IN  [newSubgraph EXCEPT
            !.nodes = MergeNodes([nodes |-> <<>>, visitedURL |-> {}], subgraphs, 1).nodes,
            !.adjacencyList = MergeMap(start, subgraphs, "adjacencyList", 1).map,
            !.outLinks = MergeMap(start, subgraphs, "outLinks", 1).map,
            !.pageRankNew = MergeMap(start, subgraphs, "pageRankNew", 1).map]

\* ------------------------------------------------------------ inputs
\* A dot file written from a sequence of edges: one line "src -> dest;" each.
EdgeLine(e) == e.src \o <<Space, Arrow, Space>> \o e.dest \o <<Semi>>
DotFile(edgeStream) == [k \in 1..Len(edgeStream) |-> EdgeLine(edgeStream[k])]

\* http://a.x.calpoly.edu and http://a.z.calpoly.edu
UrlAX == <<Http, "a", Dot, "x", Dot, Calpoly, Dot, Edu>>
UrlAZ == <<Http, "a", Dot, "z", Dot, Calpoly, Dot, Edu>>
Urls == {UrlAX, UrlAZ}
EdgePool == [src : Urls, dest : Urls]
EdgeStreams == UNION {[1..n -> EdgePool] : n \in 0..MaxEdges}

\* http://bx.calpoly.edu, whose key "bx" ends with the key "x", and
\* http://www.ieee.org, which has no key.
UrlBX == <<Http, "b", "x", Dot, Calpoly, Dot, Edu>>
UrlExt == <<Http, "www", Dot, "ieee", Dot, "org">>
SerialUrls == {UrlAX, UrlBX, UrlExt}
SerialEdgePool == [src : SerialUrls, dest : SerialUrls]
SerialStreams == UNION {[1..n -> SerialEdgePool] : n \in 0..MaxSerialEdges}

\* http://b.x.calpoly.edu, in the same domain as http://a.x.calpoly.edu
UrlBDotX == <<Http, "b", Dot, "x", Dot, Calpoly, Dot, Edu>>
PairUrls == {UrlAX, UrlBDotX}
PairEdgePool == [src : PairUrls, dest : PairUrls]
PairStreams == UNION {[1..n -> PairEdgePool] : n \in 0..MaxPairEdges}

\* https://x.calpoly.edu, and calpoly.edu, whose first segment is the label.
UrlSecureX == <<Https, "x", Dot, Calpoly, Dot, Edu>>
UrlBare == <<Calpoly, Dot, Edu>>
KeyUrls == {UrlSecureX, UrlBare, UrlExt}
KeyEdgePool == [src : KeyUrls, dest : KeyUrls]
KeyStreams == UNION {[1..n -> KeyEdgePool] : n \in 0..MaxKeyEdges}

\* Lines of a dot file: an edge, a line without arrow, a line with two
\* arrows, a line with nothing after the arrow, a line with nothing before it.
LineEdge == EdgeLine([src |-> UrlAX, dest |-> UrlAX])
LineNoArrow == UrlAX \o <<Semi>>
LineTwoArrows == UrlAX \o <<Space, Arrow, Space>> \o LineEdge
LineNoDest == UrlAX \o <<Space, Arrow, Space, Semi>>
LineNoSrc == <<Space, Arrow, Space>> \o UrlAX \o <<Semi>>
LinePool == {LineEdge, LineNoArrow, LineTwoArrows, LineNoDest, LineNoSrc}
LineFiles == UNION {[1..n -> LinePool] : n \in 0..MaxLines}

\* The pages the crawlers meet, and the lists of links a page can yield.
CrawlUrls == {UrlAX, UrlAZ}
LinkLists == UNION {[1..n -> CrawlUrls] : n \in 0..MaxLinks}

\* ------------------------------------------------------------ distributed main
VARIABLES
    lines,        \* the lines of the dot file
    edges,        \* the lines that pass the scan's len(s) == 2 test, as
                  \* (src, dest) pairs
    pc,           \* main's position
    domains,      \* the slice getDomains returned
    subgraphs,    \* main's slice of *Subgraph: addresses into heap
    idx,          \* index of main's current range loop
    heap,         \* the Subgraph objects allocated so far, by address
    wgCounter,    \* the counter of the WaitGroup wg
    tasks,        \* the goroutines launched: position and argument of each
    globalGraph,  \* address of the merged graph, 0 before combineSubgraphs
    accessed      \* history: per address, the threads that read or wrote the
                  \* object since the first goroutine was launched (0 is main)

VARIABLES
    prog,         \* which crawler runs: "build_dot_graph", "concurrent" or "none"
    cpc,          \* breadthFirst's position
    depth,        \* concurrent: the parameter depth
    round,        \* the number of completed passes of the outer loop
    seen,         \* the key set of the map seen
    worklist,
    items,        \* the part of items the range loop has still to visit
    length,
    got,          \* the i of the receive loop
    workers,      \* the goroutines started: url, list returned by links.Extract,
                  \* whether it has returned, sends done ("c", "u"), and the
                  \* index of the next string to send on c_str
    val,          \* build_dot_graph: the list last received on c
    cur,          \* history: the worker whose send on c was received last
    retLen,       \* concurrent: ret_len
    strs,         \* concurrent: the j of the string loop
    file,         \* build_dot_graph: the lines written to the dot file
    pairs         \* history: per receive on u or c_str, the worker of the
                  \* preceding receive on c (first) and the sender (second)

rankVars ==
    <<lines, edges, pc, domains, subgraphs, idx, heap, wgCounter, tasks, globalGraph, accessed>>

crawlVars ==
    <<prog, cpc, depth, round, seen, worklist, items, length, got, workers, val,
      cur, retLen, strs, file, pairs>>

vars == <<rankVars, crawlVars>>

\* No crawler runs.
CrawlIdle ==
    /\ prog = "none" /\ cpc = "done" /\ depth = 0 /\ round = 0 /\ seen = {}
    /\ worklist = <<>> /\ items = <<>> /\ length = 0 /\ got = 0 /\ workers = <<>>
    /\ val = <<>> /\ cur = 0 /\ retLen = 0 /\ strs = 0 /\ file = <<>> /\ pairs = <<>>

MainThread == 0

\* main starts on one of the given dot files.
InitOnFiles(files) ==
    /\ lines \in files
    /\ edges = ParseFile(lines, 1)
    /\ pc = "getDomains"
    /\ domains = <<>>
    /\ subgraphs = <<>>
    /\ idx = 1
    /\ heap = <<>>
    /\ wgCounter = 0
    /\ tasks = <<>>
    /\ globalGraph = 0
    /\ accessed = <<>>
    /\ CrawlIdle

InitOn(streams) == InitOnFiles({DotFile(s) : s \in streams})

Init == InitOn(EdgeStreams)

\* domains := getDomains(dotFile); the slice is filled by ranging over a map
getDomains ==
    /\ pc = "getDomains"
    /\ domains' \in Orders(VisitedDomain(edges))
    /\ pc' = "read"
    /\ idx' = 1
    /\ UNCHANGED <<crawlVars, lines, edges, subgraphs, heap, wgCounter, tasks, globalGraph, accessed>>

\* subgraphs[idx] = readDotFileByDomain(dotFile, domain)
ReadPartition ==
    /\ pc = "read"
    /\ heap' = Append(heap, readDotFileByDomain(edges, domains[idx]))
    /\ subgraphs' = Append(subgraphs, Len(heap) + 1)
    /\ accessed' = Append(accessed, {})
    /\ idx' = IF idx = Len(domains) THEN 1 ELSE idx + 1
    /\ pc' = IF idx = Len(domains) THEN "launch" ELSE "read"
    /\ UNCHANGED <<crawlVars, lines, edges, domains, wgCounter, tasks, globalGraph>>

\* Variant: every goroutine reads the loop variable after the loop has ended.
LaunchSharedArg ==
    /\ pc = "launch"
    /\ wgCounter' = wgCounter + 1
    /\ tasks' = Append(tasks, [pc |-> "init", arg |-> subgraphs[Len(subgraphs)]])
    /\ idx' = IF idx = Len(subgraphs) THEN 1 ELSE idx + 1
    /\ pc' = IF idx = Len(subgraphs) THEN "wait" ELSE "launch"
    /\ UNCHANGED <<crawlVars, lines, edges, domains, subgraphs, heap, globalGraph, accessed>>

\* Variant: the goroutine is started without wg.Add(1).
LaunchNoAdd ==
    /\ pc = "launch"
    /\ tasks' = Append(tasks, [pc |-> "init", arg |-> subgraphs[idx]])
    /\ idx' = IF idx = Len(subgraphs) THEN 1 ELSE idx + 1
    /\ pc' = IF idx = Len(subgraphs) THEN "wait" ELSE "launch"
    /\ UNCHANGED <<crawlVars, lines, edges, domains, subgraphs, heap, wgCounter, globalGraph, accessed>>

\* wg.Add(1); count++; go localizedPageRank(subGraphPtr)
Launch ==
    /\ pc = "launch"
    /\ wgCounter' = wgCounter + 1
    /\ tasks' = Append(tasks, [pc |-> "init", arg |-> subgraphs[idx]])
    /\ idx' = IF idx = Len(subgraphs) THEN 1 ELSE idx + 1
    /\ pc' = IF idx = Len(subgraphs) THEN "wait" ELSE "launch"
    /\ UNCHANGED <<crawlVars, lines, edges, domains, subgraphs, heap, globalGraph, accessed>>

Touch(thread, addr) == [accessed EXCEPT ![addr] = @ \cup {thread}]

\* goroutine t: initPageRank(subGraph)
TaskInit(t) ==
    /\ tasks[t].pc = "init"
    /\ heap' = [heap EXCEPT ![tasks[t].arg] = initPageRank(@)]
    /\ tasks' = [tasks EXCEPT ![t].pc = "loop"]
    /\ accessed' = Touch(t, tasks[t].arg)
    /\ UNCHANGED <<crawlVars, lines, edges, pc, domains, subgraphs, idx, wgCounter, globalGraph>>

\* goroutine t: one pass of pageRank's loop, then break or repeat
TaskPass(t) ==
    /\ tasks[t].pc = "loop"
    /\ LET g == PageRankPass(heap[tasks[t].arg], Damping)
       IN  /\ heap' = [heap EXCEPT ![tasks[t].arg] = g]
           /\ tasks' = [tasks EXCEPT ![t].pc =
                           IF Converged(g, Epsilon) THEN "break" ELSE "loop"]
    /\ accessed' = Touch(t, tasks[t].arg)
    /\ UNCHANGED <<crawlVars, lines, edges, pc, domains, subgraphs, idx, wgCounter, globalGraph>>

\* goroutine t: wg.Done()
TaskDone(t) ==
    /\ tasks[t].pc = "break"
    /\ wgCounter' = wgCounter - 1
    /\ tasks' = [tasks EXCEPT ![t].pc = "done"]
    /\ UNCHANGED <<crawlVars, lines, edges, pc, domains, subgraphs, idx, heap, globalGraph, accessed>>

\* Variant: main goes on without waiting for the counter.
WgWaitNoBarrier ==
    /\ pc = "wait"
    /\ pc' = "combine"
    /\ UNCHANGED <<crawlVars, lines, edges, domains, subgraphs, idx, heap, wgCounter, tasks, globalGraph, accessed>>

\* wg.Wait() returns
WgWait ==
    /\ pc = "wait"
    /\ wgCounter = 0
    /\ pc' = "combine"
    /\ UNCHANGED <<crawlVars, lines, edges, domains, subgraphs, idx, heap, wgCounter, tasks, globalGraph, accessed>>

\* Variant: the merge result is stored in the first partition's object.
CombineInPlace ==
    /\ pc = "combine"
    /\ heap' = [heap EXCEPT ![subgraphs[1]] =
                    combineSubgraphs([i \in 1..Len(subgraphs) |-> heap[subgraphs[i]]])]
    /\ globalGraph' = subgraphs[1]
    /\ accessed' = [a \in 1..Len(accessed) |-> accessed[a] \cup {MainThread}]
    /\ pc' = "normalize"
    /\ UNCHANGED <<crawlVars, lines, edges, domains, subgraphs, idx, wgCounter, tasks>>

\* globalGraph := combineSubgraphs(subgraphs)
Combine ==
    /\ pc = "combine"
    /\ heap' = Append(heap, combineSubgraphs([i \in 1..Len(subgraphs) |-> heap[subgraphs[i]]]))
    /\ globalGraph' = Len(heap) + 1
    /\ accessed' = Append([a \in 1..Len(accessed) |-> accessed[a] \cup {MainThread}],
                          {MainThread})
    /\ pc' = "normalize"
    /\ UNCHANGED <<crawlVars, lines, edges, domains, subgraphs, idx, wgCounter, tasks>>

\* Variant: main re-initializes the merged ranks to 1/|nodes|.
NormalizeReinit ==
    /\ pc = "normalize"
    /\ heap' = [heap EXCEPT ![globalGraph] = initPageRank(@)]
    /\ pc' = "pageRank"
    /\ UNCHANGED <<crawlVars, lines, edges, domains, subgraphs, idx, wgCounter, tasks, globalGraph, accessed>>

\* normalizePageRankNew(globalGraph)
Normalize ==
    /\ pc = "normalize"
    /\ heap' = [heap EXCEPT ![globalGraph] = normalizePageRankNew(@)]
    /\ pc' = "pageRank"
    /\ UNCHANGED <<crawlVars, lines, edges, domains, subgraphs, idx, wgCounter, tasks, globalGraph, accessed>>

\* pageRank(globalGraph, 0.9, 0.0001): one pass of its loop
GlobalPass ==
    /\ pc = "pageRank"
    /\ LET g == PageRankPass(heap[globalGraph], Damping)
       IN  /\ heap' = [heap EXCEPT ![globalGraph] = g]
           /\ pc' = IF Converged(g, Epsilon) THEN "done" ELSE "pageRank"
    /\ UNCHANGED <<crawlVars, lines, edges, domains, subgraphs, idx, wgCounter, tasks, globalGraph, accessed>>

Next ==
    \/ getDomains
    \/ ReadPartition
    \/ Launch
    \/ \E t \in 1..Len(tasks) : TaskInit(t)
    \/ \E t \in 1..Len(tasks) : TaskPass(t)
    \/ \E t \in 1..Len(tasks) : TaskDone(t)
    \/ WgWait
    \/ Combine
    \/ Normalize
    \/ GlobalPass

Spec == Init /\ [][Next]_vars

\* The same program on the wider URL pool, under the schedules in which the
\* goroutines run one after the other once main waits at the barrier.
SerialInit == InitOn(SerialStreams)

Turn(t) == pc = "wait" /\ \A u \in 1..(t - 1) : tasks[u].pc = "done"

SerialNext ==
    \/ getDomains
    \/ ReadPartition
    \/ Launch
    \/ \E t \in 1..Len(tasks) : Turn(t) /\ TaskInit(t)
    \/ \E t \in 1..Len(tasks) : Turn(t) /\ TaskPass(t)
    \/ \E t \in 1..Len(tasks) : Turn(t) /\ TaskDone(t)
    \/ WgWait
    \/ Combine
    \/ Normalize
    \/ GlobalPass

SerialSpec == SerialInit /\ [][SerialNext]_vars

\* The same program on dot files whose URLs are all in the domain "x".
PairInit == InitOn(PairStreams)

PairSpec == PairInit /\ [][SerialNext]_vars

\* The same program on dot files with https, bare and external host names.
KeyInit == InitOn(KeyStreams)

KeySpec == KeyInit /\ [][SerialNext]_vars

\* The same program on dot files with lines that are not edges.
LineInit == InitOnFiles(LineFiles)

LineSpec == LineInit /\ [][SerialNext]_vars

\* No PageRank program runs.
RankIdle ==
    /\ lines = <<>> /\ edges = <<>> /\ pc = "getDomains" /\ domains = <<>>
    /\ subgraphs = <<>> /\ idx = 1 /\ heap = <<>> /\ wgCounter = 0 /\ tasks = <<>>
    /\ globalGraph = 0 /\ accessed = <<>>

\* ------------------------------------------------------------ crawlers
\* The two breadthFirst functions of web_crawler: build_dot_graph.go (runs
\* until the worklist is empty, writes the dot file) and concurrent.go (runs
\* depth rounds).  Channels are unbuffered: a send and its receive are one
\* step of the sender and the receiver together.

\* worker w: links.Extract(url) returns, with some list of links
Extract(w) ==
    /\ ~workers[w].crawled
    /\ \E list \in LinkLists :
          workers' = [workers EXCEPT ![w].list = list, ![w].crawled = TRUE]
    /\ UNCHANGED <<rankVars, prog, cpc, depth, round, seen, worklist, items, length, got,
                   val, cur, retLen, strs, file, pairs>>

NewWorker(url) == [url |-> url, list |-> <<>>, crawled |-> FALSE, sent |-> {}, next |-> 1]

\* build_dot_graph: for len(worklist) > 0 { items := worklist; worklist = nil; length := 0
DotGraphRound ==
    /\ prog = "build_dot_graph" /\ cpc = "head"
    /\ Len(worklist) > 0
    /\ items' = worklist
    /\ worklist' = <<>>
    /\ length' = 0
    /\ cpc' = "range"
    /\ UNCHANGED <<rankVars, prog, depth, round, seen, got, workers, val, cur, retLen, strs,
                   file, pairs>>

\* build_dot_graph: the worklist is empty, breadthFirst returns
DotGraphReturn ==
    /\ prog = "build_dot_graph" /\ cpc = "head"
    /\ Len(worklist) = 0
    /\ cpc' = "done"
    /\ UNCHANGED <<rankVars, prog, depth, round, seen, worklist, items, length, got,
                   workers, val, cur, retLen, strs, file, pairs>>

\* Variant: the item is launched without the test of seen.
DotGraphLaunchUnchecked ==
    /\ prog = "build_dot_graph" /\ cpc = "range"
    /\ items # <<>>
    /\ length' = length + 1
    /\ seen' = seen \cup {Head(items)}
    /\ workers' = Append(workers, NewWorker(Head(items)))
    /\ items' = Tail(items)
    /\ UNCHANGED <<rankVars, prog, cpc, depth, round, worklist, got, val, cur, retLen, strs,
                   file, pairs>>

\* build_dot_graph: if !seen[item] { length++; seen[item] = true; go g(item) }
DotGraphLaunch ==
    /\ prog = "build_dot_graph" /\ cpc = "range"
    /\ items # <<>> /\ Head(items) \notin seen
    /\ length' = length + 1
    /\ seen' = seen \cup {Head(items)}
    /\ workers' = Append(workers, NewWorker(Head(items)))
    /\ items' = Tail(items)
    /\ UNCHANGED <<rankVars, prog, cpc, depth, round, worklist, got, val, cur, retLen, strs,
                   file, pairs>>

\* build_dot_graph: an item that was seen before is passed over
DotGraphSkip ==
    /\ prog = "build_dot_graph" /\ cpc = "range"
    /\ items # <<>> /\ Head(items) \in seen
    /\ items' = Tail(items)
    /\ UNCHANGED <<rankVars, prog, cpc, depth, round, seen, worklist, length, got, workers,
                   val, cur, retLen, strs, file, pairs>>

\* build_dot_graph: the range loop ends; for i := 0; ...
DotGraphRangeEnd ==
    /\ prog = "build_dot_graph" /\ cpc = "range"
    /\ items = <<>>
    /\ got' = 0
    /\ cpc' = "recv_c"
    /\ UNCHANGED <<rankVars, prog, depth, round, seen, worklist, items, length, workers,
                   val, cur, retLen, strs, file, pairs>>

\* build_dot_graph: worker w's c <- f(url) meets main's val := <- c
DotGraphRecvList(w) ==
    /\ prog = "build_dot_graph" /\ cpc = "recv_c"
    /\ got < length
    /\ workers[w].crawled /\ "c" \notin workers[w].sent
    /\ val' = workers[w].list
    /\ cur' = w
    /\ workers' = [workers EXCEPT ![w].sent = @ \cup {"c"}]
    /\ cpc' = "recv_u"
    /\ UNCHANGED <<rankVars, prog, depth, round, seen, worklist, items, length, got,
                   retLen, strs, file, pairs>>

\* Go: fmt.Sprintf("%s -> %s;\n", origin_url, url) for each url of url_list
writeToFile(fp, origin_url, url_list) ==
    fp \o [k \in 1..Len(url_list) |-> EdgeLine([src |-> origin_url, dest |-> url_list[k]])]

\* Variant: g sends the url on u without waiting for its send on c.
DotGraphRecvOriginUnordered(w) ==
    /\ prog = "build_dot_graph" /\ cpc = "recv_u"
    /\ "u" \notin workers[w].sent
    /\ workers' = [workers EXCEPT ![w].sent = @ \cup {"u"}]
    /\ worklist' = worklist \o val
    /\ file' = writeToFile(file, workers[w].url, val)
    /\ pairs' = Append(pairs, [first |-> cur, second |-> w])
    /\ got' = got + 1
    /\ cpc' = "recv_c"
    /\ UNCHANGED <<rankVars, prog, depth, round, seen, items, length, val, cur, retLen, strs>>

\* build_dot_graph: worker w's u <- url meets main's origin := <- u; then
\* worklist = append(worklist, val...); writeToFile(fp, origin, val); i++
DotGraphRecvOrigin(w) ==
    /\ prog = "build_dot_graph" /\ cpc = "recv_u"
    /\ "c" \in workers[w].sent /\ "u" \notin workers[w].sent
    /\ workers' = [workers EXCEPT ![w].sent = @ \cup {"u"}]
    /\ worklist' = worklist \o val
    /\ file' = writeToFile(file, workers[w].url, val)
    /\ pairs' = Append(pairs, [first |-> cur, second |-> w])
    /\ got' = got + 1
    /\ cpc' = "recv_c"
    /\ UNCHANGED <<rankVars, prog, depth, round, seen, items, length, val, cur, retLen, strs>>

\* build_dot_graph: i reaches length, back to the test of the outer loop
DotGraphRoundEnd ==
    /\ prog = "build_dot_graph" /\ cpc = "recv_c"
    /\ got >= length
    /\ round' = round + 1
    /\ cpc' = "head"
    /\ UNCHANGED <<rankVars, prog, depth, seen, worklist, items, length, got, workers, val,
                   cur, retLen, strs, file, pairs>>

\* concurrent: for i := 0; i < depth; i++ { items := worklist; worklist = nil;
\* length := len(items)
ConcurrentRound ==
    /\ prog = "concurrent" /\ cpc = "head"
    /\ round < depth
    /\ items' = worklist
    /\ worklist' = <<>>
    /\ length' = Len(worklist)
    /\ cpc' = "range"
    /\ UNCHANGED <<rankVars, prog, depth, round, seen, got, workers, val, cur, retLen, strs,
                   file, pairs>>

\* concurrent: i reaches depth, breadthFirst returns
ConcurrentReturn ==
    /\ prog = "concurrent" /\ cpc = "head"
    /\ round >= depth
    /\ cpc' = "done"
    /\ UNCHANGED <<rankVars, prog, depth, round, seen, worklist, items, length, got,
                   workers, val, cur, retLen, strs, file, pairs>>

\* concurrent: if !seen[item] { seen[item] = true; go f(c, c_str, item) }
ConcurrentLaunch ==
    /\ prog = "concurrent" /\ cpc = "range"
    /\ items # <<>> /\ Head(items) \notin seen
    /\ seen' = seen \cup {Head(items)}
    /\ workers' = Append(workers, NewWorker(Head(items)))
    /\ items' = Tail(items)
    /\ UNCHANGED <<rankVars, prog, cpc, depth, round, worklist, length, got, val, cur,
                   retLen, strs, file, pairs>>

\* concurrent: else { length-- }
ConcurrentSkip ==
    /\ prog = "concurrent" /\ cpc = "range"
    /\ items # <<>> /\ Head(items) \in seen
    /\ length' = length - 1
    /\ items' = Tail(items)
    /\ UNCHANGED <<rankVars, prog, cpc, depth, round, seen, worklist, got, workers, val,
                   cur, retLen, strs, file, pairs>>

\* concurrent: the range loop ends; for i := 0; ...
ConcurrentRangeEnd ==
    /\ prog = "concurrent" /\ cpc = "range"
    /\ items = <<>>
    /\ got' = 0
    /\ cpc' = "recv_c"
    /\ UNCHANGED <<rankVars, prog, depth, round, seen, worklist, items, length, workers,
                   val, cur, retLen, strs, file, pairs>>

\* concurrent: worker w's c <- len(list) meets main's ret_len := <- c
ConcurrentRecvCount(w) ==
    /\ prog = "concurrent" /\ cpc = "recv_c"
    /\ got < length
    /\ workers[w].crawled /\ "c" \notin workers[w].sent
    /\ retLen' = Len(workers[w].list)
    /\ cur' = w
    /\ strs' = 0
    /\ workers' = [workers EXCEPT ![w].sent = @ \cup {"c"}]
    /\ cpc' = "recv_str"
    /\ UNCHANGED <<rankVars, prog, depth, round, seen, worklist, items, length, got, val,
                   file, pairs>>

\* Variant: crawl sends its strings without having sent their number first.
ConcurrentRecvStringUnordered(w) ==
    /\ prog = "concurrent" /\ cpc = "recv_str"
    /\ strs < retLen
    /\ workers[w].crawled /\ workers[w].next <= Len(workers[w].list)
    /\ worklist' = Append(worklist, workers[w].list[workers[w].next])
    /\ workers' = [workers EXCEPT ![w].next = @ + 1]
    /\ pairs' = Append(pairs, [first |-> cur, second |-> w])
    /\ strs' = strs + 1
    /\ UNCHANGED <<rankVars, prog, cpc, depth, round, seen, items, length, got, val, cur,
                   retLen, file>>

\* concurrent: worker w's c_str <- str meets main's val := <- c_str; then
\* worklist = append(worklist, val); j++
ConcurrentRecvString(w) ==
    /\ prog = "concurrent" /\ cpc = "recv_str"
    /\ strs < retLen
    /\ "c" \in workers[w].sent /\ workers[w].next <= Len(workers[w].list)
    /\ worklist' = Append(worklist, workers[w].list[workers[w].next])
    /\ workers' = [workers EXCEPT ![w].next = @ + 1]
    /\ pairs' = Append(pairs, [first |-> cur, second |-> w])
    /\ strs' = strs + 1
    /\ UNCHANGED <<rankVars, prog, cpc, depth, round, seen, items, length, got, val, cur,
                   retLen, file>>

\* concurrent: j reaches ret_len; i++
ConcurrentStringsEnd ==
    /\ prog = "concurrent" /\ cpc = "recv_str"
    /\ strs >= retLen
    /\ got' = got + 1
    /\ cpc' = "recv_c"
    /\ UNCHANGED <<rankVars, prog, depth, round, seen, worklist, items, length, workers,
                   val, cur, retLen, strs, file, pairs>>

\* concurrent: the inner i reaches length; the outer i++
ConcurrentRoundEnd ==
    /\ prog = "concurrent" /\ cpc = "recv_c"
    /\ got >= length
    /\ round' = round + 1
    /\ cpc' = "head"
    /\ UNCHANGED <<rankVars, prog, depth, seen, worklist, items, length, got, workers, val,
                   cur, retLen, strs, file, pairs>>

\* breadthFirst is called with some worklist and, in concurrent.go, some depth.
CrawlInit ==
    /\ RankIdle
    /\ prog \in {"build_dot_graph", "concurrent"}
    /\ worklist \in LinkLists
    /\ depth \in (IF prog = "concurrent" THEN 0..MaxDepth ELSE {0})
    /\ cpc = "head"
    /\ round = 0
    /\ seen = {}
    /\ items = <<>>
    /\ length = 0
    /\ got = 0
    /\ workers = <<>>
    /\ val = <<>>
    /\ cur = 0
    /\ retLen = 0
    /\ strs = 0
    /\ file = <<>>
    /\ pairs = <<>>

CrawlNext ==
    \/ \E w \in 1..Len(workers) : Extract(w)
    \/ DotGraphRound
    \/ DotGraphReturn
    \/ DotGraphLaunch
    \/ DotGraphSkip
    \/ DotGraphRangeEnd
    \/ \E w \in 1..Len(workers) : DotGraphRecvList(w)
    \/ \E w \in 1..Len(workers) : DotGraphRecvOrigin(w)
    \/ DotGraphRoundEnd
    \/ ConcurrentRound
    \/ ConcurrentReturn
    \/ ConcurrentLaunch
    \/ ConcurrentSkip
    \/ ConcurrentRangeEnd
    \/ \E w \in 1..Len(workers) : ConcurrentRecvCount(w)
    \/ \E w \in 1..Len(workers) : ConcurrentRecvString(w)
    \/ ConcurrentStringsEnd
    \/ ConcurrentRoundEnd

CrawlSpec == CrawlInit /\ [][CrawlNext]_vars

\* ------------------------------------------------------------ properties
\* The partition objects, in the order main holds them.
Partition(i) == heap[subgraphs[i]]
Merged == heap[globalGraph]
PastBarrier == pc \in {"combine", "normalize", "pageRank", "done"}
Min(S) == CHOOSE x \in S : \A y \in S : x <= y
\* The URLs that occur in the input.
InputUrls == {edges[k].src : k \in 1..Len(edges)} \cup {edges[k].dest : k \in 1..Len(edges)}
Abs(x) == IF x < 0 THEN 0 - x ELSE x

\* C1: the merge starts only after every launched task has finished its
\* power iteration and called wg.Done: once main is past wg.Wait, one task was
\* launched per partition and every task is done.
C1_MergeAfterAllTasksDone ==
    PastBarrier =>
        /\ Len(tasks) = Len(subgraphs)
        /\ \A t \in 1..Len(tasks) : tasks[t].pc = "done"

\* C1 witness: main is about to merge, two tasks ran, each more than one pass.
C1_Witness ==
    /\ pc = "combine"
    /\ Len(tasks) >= 2
    /\ \A t \in 1..2 : heap[tasks[t].arg].iters >= 2

\* C2: between launch and barrier every partition object is read or written by
\* at most one thread, and never by the launching thread.
C2_ExclusiveOwnership ==
    (pc \in {"launch", "wait"} \/ \E t \in 1..Len(tasks) : tasks[t].pc # "done") =>
        \A a \in 1..Len(accessed) :
            /\ Cardinality(accessed[a]) <= 1
            /\ MainThread \notin accessed[a]

\* C2 witness: two tasks are in their loops and each has written its partition.
C2_Witness ==
    /\ pc = "wait"
    /\ \E t1, t2 \in 1..Len(tasks) :
          /\ t1 # t2
          /\ tasks[t1].pc = "loop" /\ tasks[t2].pc = "loop"
          /\ accessed[tasks[t1].arg] = {t1}
          /\ accessed[tasks[t2].arg] = {t2}
          /\ heap[tasks[t1].arg].iters >= 1
          /\ heap[tasks[t2].arg].iters >= 1

\* What one task computes on the partition of domains[i], run alone.
LocalResult(i) ==
    pageRank(initPageRank(readDotFileByDomain(edges, domains[i])), Damping, Epsilon)

\* C3: at the barrier every partition, and after the merge the merged graph,
\* is the value determined by the sequence of built partitions alone, whatever
\* the interleaving and the order of completion.
C3_ScheduleIndependent ==
    /\ pc \in {"combine", "normalize"} =>
          \A i \in 1..Len(subgraphs) : Partition(i) = LocalResult(i)
    /\ pc = "normalize" =>
          Merged = combineSubgraphs([i \in 1..Len(subgraphs) |-> LocalResult(i)])

\* C3 witness: merged after two tasks that each needed several passes.
C3_Witness ==
    /\ pc = "normalize"
    /\ \E t1, t2 \in 1..Len(tasks) :
          t1 # t2 /\ heap[tasks[t1].arg].iters >= 2 /\ heap[tasks[t2].arg].iters >= 2

SameList(a, b) == Len(a) = Len(b) /\ Range(a) = Range(b)
Tolerance == Scale \div 1000

\* C4: the partitioned, merged and refined graph equals the sequential
\* program's graph on the same edge stream: same nodes, same incoming lists,
\* same out-degrees, ranks within the tolerance.
C4_MergedEqualsSequential ==
    pc = "done" =>
        LET s == SequentialMain(edges)
        IN  /\ Range(Merged.nodes) = Range(s.nodes)
            /\ DOMAIN Merged.adjacencyList = DOMAIN s.adjacencyList
            /\ \A u \in DOMAIN Merged.adjacencyList :
                  SameList(Merged.adjacencyList[u], s.adjacencyList[u])
            /\ Merged.outLinks = s.outLinks
            /\ DOMAIN Merged.pageRankNew = DOMAIN s.pageRankNew
            /\ \A u \in DOMAIN Merged.pageRankNew :
                  Abs(Merged.pageRankNew[u] - s.pageRankNew[u]) <= Tolerance

\* The edge (src, dest) was taken into graph g.
Included(g, e) ==
    e.dest \in DOMAIN g.adjacencyList /\ e.src \in Range(g.adjacencyList[e.dest])

\* C5: an edge is in the partition of a domain key if and only if the key
\* extracted from its source is that key.
C5_IncludedIffSrcKeyEqual ==
    \A i \in 1..Len(subgraphs) : \A k \in 1..Len(edges) :
        Included(Partition(i), edges[k]) <=> DomainsOfSrc(edges[k].src) = {domains[i]}

\* The partitions in which node u qualifies and has an entry in map field.
HasEntry(field, u) ==
    {i \in 1..Len(subgraphs) :
        u \in DOMAIN Partition(i)[field] /\ isDomain(u, Partition(i).domainName)}

\* The partitions that contain node u as a qualifying node.
Holds(u) ==
    {i \in 1..Len(subgraphs) :
        u \in Range(Partition(i).nodes) /\ isDomain(u, Partition(i).domainName)}

SameEntry(a, b, u) ==
    /\ u \in DOMAIN a <=> u \in DOMAIN b
    /\ u \in DOMAIN a => a[u] = b[u]

MapFields == {"adjacencyList", "outLinks", "pageRankNew"}

C7_CrossDomainEdgesMerged ==
    pc = "normalize" =>
        \A k \in 1..Len(edges) :
            LET e == edges[k]
                ks == DomainsOfSrc(e.src)
                kd == DomainsOfSrc(e.dest)
            IN  (ks # kd /\ ks \cap Range(domains) # {} /\ kd \cap Range(domains) # {})
                    => Included(Merged, e)

\* C8: in every graph handed to the engine, each node in an incoming list has
\* an outLinks entry >= 1, and no rank is the result of a division by zero.
C8_InNodesHaveOutLinks ==
    \A a \in 1..Len(heap) :
        LET g == heap[a]
        IN  /\ \A m \in DOMAIN g.adjacencyList : \A n \in Range(g.adjacencyList[m]) :
                  n \in DOMAIN g.outLinks /\ g.outLinks[n] >= 1
            /\ \A u \in DOMAIN g.pageRankNew : IsFinite(g.pageRankNew[u])

\* C8 witness: the global pass has run on a merged graph with a two-entry
\* incoming list.
C8_Witness ==
    /\ pc = "done"
    /\ \E m \in DOMAIN Merged.adjacencyList : Len(Merged.adjacencyList[m]) >= 2
    /\ Merged.iters >= 2

\* C9: no engine run takes more passes than the maximum-iteration cap.
C9_PassesCapped ==
    \A a \in 1..Len(heap) : heap[a].iters <= MaxIterations

\* C10: on a graph with no nodes the engine divides nothing, keeps the rank
\* maps empty, leaves its loop after one pass, and the task then calls
\* wg.Done, so that the counter is back to zero when all tasks are done.
C10_EmptyGraph ==
    /\ \A a \in 1..Len(heap) :
          Len(heap[a].nodes) = 0 =>
              /\ heap[a].divs = 0
              /\ DOMAIN heap[a].pageRankNew = {}
              /\ DOMAIN heap[a].pageRankOld = {}
              /\ heap[a].iters <= 1
              /\ \A t \in 1..Len(tasks) :
                    tasks[t].arg = a =>
                        /\ tasks[t].pc \in {"init", "loop"} => heap[a].iters = 0
                        /\ tasks[t].pc \in {"break", "done"} => heap[a].iters = 1
                        /\ tasks[t].pc = "break" => ENABLED TaskDone(t)
              /\ a = globalGraph =>
                    /\ pc \in {"normalize", "pageRank"} => heap[a].iters = 0
                    /\ pc = "done" => heap[a].iters = 1
    /\ (Len(tasks) = Len(subgraphs) /\ \A t \in 1..Len(tasks) : tasks[t].pc = "done")
          => wgCounter = 0

\* C10 witness: the run ended with an empty partition and an empty merged graph.
C10_Witness ==
    /\ pc = "done"
    /\ Len(Merged.nodes) = 0 /\ Merged.iters = 1
    /\ \E t \in 1..Len(tasks) :
          Len(heap[tasks[t].arg].nodes) = 0 /\ tasks[t].pc = "done"

\* What main's merge yields when getDomains returns the keys in the order o.
MergedFor(o) ==
    combineSubgraphs([i \in 1..Len(o) |->
        pageRank(initPageRank(readDotFileByDomain(edges, o[i])), Damping, Epsilon)])

\* C11: for a fixed input the merged graph (nodes, incoming lists, out-degrees,
\* seed ranks) is the same for every order in which getDomains can enumerate
\* the domain keys.
C11_MergedIndependentOfDomainOrder ==
    pc = "normalize" =>
        \A o \in Orders(VisitedDomain(edges)) :
            LET m == MergedFor(o)
            IN  /\ Range(m.nodes) = Range(Merged.nodes)
                /\ DOMAIN m.adjacencyList = DOMAIN Merged.adjacencyList
                /\ \A u \in DOMAIN m.adjacencyList :
                      SameList(m.adjacencyList[u], Merged.adjacencyList[u])
                /\ m.outLinks = Merged.outLinks
                /\ m.pageRankNew = Merged.pageRankNew

SumRanks(g) == SumOver(g.pageRankNew, DOMAIN g.pageRankNew)

\* The graph at address a has been through normalizePageRankNew.
Normalized(a) ==
    heap[a].iters >= 1 \/ (a = globalGraph /\ pc \in {"pageRank", "done"})

\* C12: after every normalization of a non-empty graph, hence in every
\* converged graph, the ranks of pageRankNew sum to 1 within 1e-4.
C12_RanksSumToOne ==
    \A a \in 1..Len(heap) :
        (Len(heap[a].nodes) > 0 /\ Normalized(a)) =>
            /\ IsFinite(SumRanks(heap[a]))
            /\ Abs(SumRanks(heap[a]) - One) <= Epsilon

\* C12 witness: the run ended and some graph with a node that has no
\* out-link, whose update loop therefore loses rank, took several passes.
C12_Witness ==
    /\ pc = "done"
    /\ \E a \in 1..Len(heap) :
          /\ heap[a].iters >= 2
          /\ \E u \in Range(heap[a].nodes) : u \notin DOMAIN heap[a].outLinks

\* The graph at address a is a converged graph: its pageRank loop has ended.
ConvergedGraph(a) ==
    \/ \E t \in 1..Len(tasks) : tasks[t].arg = a /\ tasks[t].pc \in {"break", "done"}
    \/ a = globalGraph /\ pc = "done"

\* The nodes of g that have no entry in the incoming adjacency.
ZeroInbound(g) == {u \in Range(g.nodes) : u \notin DOMAIN g.adjacencyList}

\* (1 - d) / |nodes|
RandomClick(g) == FDiv(FSub(One, Damping), IntToF(Len(g.nodes)))

\* The number of times node n occurs in the incoming lists of g.
InListCount(g, n) ==
    Cardinality(UNION {{<<m, i>> : i \in {j \in 1..Len(g.adjacencyList[m]) :
                                              g.adjacencyList[m][j] = n}} :
                          m \in DOMAIN g.adjacencyList})

\* No rank leaves g in the update loop: every node has an out-link and every
\* out-link counted in outLinks is in an incoming list.
NoRankLost(g) ==
    \A n \in Range(g.nodes) :
        Get(g.outLinks, n, 0) >= 1 /\ Get(g.outLinks, n, 0) = InListCount(g, n)

CycleEdges == <<[src |-> UrlAX, dest |-> UrlBDotX], [src |-> UrlBDotX, dest |-> UrlAX]>>
CycleFiles == {DotFile(CycleEdges), DotFile(<<CycleEdges[2], CycleEdges[1]>>)}

\* C14: on the two-line cycle a.x -> b.x, b.x -> a.x getDomains yields exactly
\* the keys "" and "x", partition "x" has exactly 2 nodes, and the engine
\* leaves its loop with rank 0.5 (within 1e-4) for both nodes, whichever node
\* comes first in nodes.
C14_TwoNodeCycle ==
    lines \in CycleFiles =>
        /\ pc # "getDomains" => Range(domains) = {<<>>, <<"x">>} /\ Len(domains) = 2
        /\ \A a \in 1..Len(heap) :
              heap[a].domainName = <<"x">> =>
                  /\ Len(heap[a].nodes) = 2
                  /\ Range(heap[a].nodes) = {UrlAX, UrlBDotX}
                  /\ ConvergedGraph(a) =>
                        \A u \in Range(heap[a].nodes) :
                            Abs(heap[a].pageRankNew[u] - (One \div 2)) <= Epsilon

\* C14 witness: partition "x" of the cycle has converged, in a run where b.x
\* is the first node of the partition.
C14_Witness ==
    /\ lines \in CycleFiles
    /\ \E a \in 1..Len(heap) :
          /\ heap[a].domainName = <<"x">>
          /\ ConvergedGraph(a)
          /\ heap[a].nodes[1] = UrlBDotX
          /\ heap[a].iters >= 1

\* The positions of url at which the label "calpoly" stands as a whole
\* dot-separated segment that is not the first one.
LabelAt(url) ==
    {p \in 2..Len(url) :
        /\ url[p] = Calpoly
        /\ url[p - 1] = Dot
        /\ p = Len(url) \/ url[p + 1] = Dot}

\* The segment that ends just before the dot at position p - 1, without
\* "http://" and "https://".
LabelBefore(url, p) ==
    LET dots == {j \in 1..(p - 2) : url[j] = Dot}
        from == IF dots = {} THEN 1 ELSE 1 + CHOOSE j \in dots : \A i \in dots : i <= j
    IN  SelectSeq(SubSeq(url, from, p - 2), LAMBDA t : t \notin {Http, Https})

\* C15: the slice getDomains returns always holds the empty key; besides it,
\* it holds exactly the segments that precede the label "calpoly" in the
\* sources (label a whole segment, not the first), scheme prefix removed; each
\* key once; a source without such a label adds nothing, and destinations add
\* nothing.
C15_DomainKeys ==
    pc # "getDomains" =>
        /\ <<>> \in Range(domains)
        /\ Range(domains) =
              {<<>>} \cup UNION {{LabelBefore(edges[k].src, p) : p \in LabelAt(edges[k].src)} :
                                    k \in 1..Len(edges)}
        /\ \A i, j \in 1..Len(domains) : domains[i] = domains[j] => i = j

\* C15 witness: a run on a file in which one source has the label as its
\* first segment and points to a keyed destination, no source has a key.
C15_Witness ==
    /\ pc = "done"
    /\ \E k \in 1..Len(edges) : edges[k].src = UrlBare /\ edges[k].dest = UrlSecureX
    /\ \A k \in 1..Len(edges) : edges[k].src \in {UrlBare, UrlExt}
    /\ domains = <<<<>>>>

\* C15 second case: a source with the scheme https contributes its key.
C15_WitnessKeyed ==
    /\ pc = "done"
    /\ \E k \in 1..Len(edges) : edges[k].src = UrlSecureX
    /\ Range(domains) = {<<>>, <<"x">>}

\* The line has exactly one "->", with a token other than white space before
\* it and a token other than white space and ";" after it.
WellFormed(line) ==
    /\ Cardinality({i \in 1..Len(line) : line[i] = Arrow}) = 1
    /\ LET at == CHOOSE i \in 1..Len(line) : line[i] = Arrow
       IN  /\ \E i \in 1..(at - 1) : line[i] # Space
           /\ \E i \in (at + 1)..Len(line) : line[i] \notin {Space, Semi}

\* The edges of the well-formed lines of the dot file.
WellFormedEdges == ParseFile(SelectSeq(lines, WellFormed), 1)

SameGraph(g, h) ==
    g.nodes = h.nodes /\ g.adjacencyList = h.adjacencyList /\ g.outLinks = h.outLinks

\* C16: exactly the lines with one "->" between two non-empty trimmed tokens
\* are edges; every other line leaves nodes, incoming and outDegree as they
\* are, in the partitions and in the sequential program's graph, and no node
\* has an empty name.
C16_OnlyWellFormedLinesAreEdges ==
    /\ \A i \in 1..Len(subgraphs) :
          /\ SameGraph(Partition(i), readDotFileByDomain(WellFormedEdges, domains[i]))
          /\ <<>> \notin Range(Partition(i).nodes)
    /\ pc = "done" =>
          /\ SameGraph(readDotFile(edges), readDotFile(WellFormedEdges))
          /\ <<>> \notin Range(readDotFile(edges).nodes)

\* The steps of main from one phase to the next.
PhaseSteps ==
    {<<"getDomains", "read">>, <<"read", "launch">>, <<"launch", "wait">>,
     <<"wait", "combine">>, <<"combine", "normalize">>, <<"normalize", "pageRank">>,
     <<"pageRank", "done">>}

\* C17: main goes through its phases in the order discover, build all
\* partitions, launch, barrier, merge, renormalize, global iteration; the
\* merged ranks are those of the partitions, main's normalization only divides
\* them by their sum, and the first global pass starts from the result.
C17_PhasesInOrder ==
    [][/\ pc' # pc => <<pc, pc'>> \in PhaseSteps
       /\ pc' = "launch" => Len(subgraphs') = Len(domains)
       /\ pc' = "wait" => Len(tasks') = Len(subgraphs)
       /\ pc = "combine" =>
             \A u \in DOMAIN heap'[globalGraph'].pageRankNew :
                 \E i \in 1..Len(subgraphs) :
                     /\ u \in DOMAIN Partition(i).pageRankNew
                     /\ heap'[globalGraph'].pageRankNew[u] = Partition(i).pageRankNew[u]
       /\ pc = "normalize" =>
             heap'[globalGraph].pageRankNew =
                 [u \in DOMAIN Merged.pageRankNew |->
                     FDiv(Merged.pageRankNew[u], SumRanks(Merged))]
       /\ (pc = "pageRank" /\ Merged.iters = 0) =>
             heap'[globalGraph].pageRankOld = Merged.pageRankNew
      ]_vars

\* C17 witness: the first global pass has run from merged seed ranks that are
\* not uniform.
C17_Witness ==
    /\ pc \in {"pageRank", "done"}
    /\ Merged.iters = 1
    /\ \E u, v \in DOMAIN Merged.pageRankOld : Merged.pageRankOld[u] # Merged.pageRankOld[v]

\* The lines of the dot file that partition i takes and that have source u.
IncludedFrom(i, u) ==
    {k \in 1..Len(edges) : edges[k].src = u /\ isDomain(u, domains[i])}

\* C18 as stated: in the partition of a domain key every node without
\* outLinks entry is outside the domain: a node whose key is the partition's
\* key has an entry.
C18_NoEntryOnlyOutsideDomain ==
    \A i \in 1..Len(subgraphs) : \A u \in Range(Partition(i).nodes) :
        DomainsOfSrc(u) = {domains[i]} => u \in DOMAIN Partition(i).outLinks

\* C18 amended: in a partition the nodes without outLinks entry are exactly
\* the nodes that are the source of no included line, whatever their domain;
\* a node that is the source of included lines has their number as its entry.
C18_NoEntryIffNeverSource ==
    \A i \in 1..Len(subgraphs) : \A u \in Range(Partition(i).nodes) :
        /\ u \in DOMAIN Partition(i).outLinks <=> IncludedFrom(i, u) # {}
        /\ u \in DOMAIN Partition(i).outLinks =>
              Partition(i).outLinks[u] = Cardinality(IncludedFrom(i, u))
        /\ u \notin DOMAIN Partition(i).outLinks =>
              \E k \in 1..Len(edges) :
                  edges[k].dest = u /\ isDomain(edges[k].src, domains[i])

\* C18 witness: partition "x" holds a node of domain "x" without outLinks
\* entry, and its task has run.
C18_Witness ==
    \E i \in 1..Len(subgraphs) :
        /\ domains[i] = <<"x">>
        /\ ConvergedGraph(subgraphs[i])
        /\ \E u \in Range(Partition(i).nodes) :
              u \notin DOMAIN Partition(i).outLinks /\ DomainsOfSrc(u) = {<<"x">>}

\* C19: a pass leaves in pageRankOld the ranks the graph had before the pass,
\* and the new ranks are those computed from these alone: processing the
\* nodes in any other order yields the same new ranks.
C19_PassReadsOnlyPreviousRanks ==
    [][\A a \in 1..Len(heap) :
           heap'[a].iters = heap[a].iters + 1 =>
               /\ heap'[a].pageRankOld = heap[a].pageRankNew
               /\ \A p \in Orders(Range(heap[a].nodes)) :
                     PageRankPass([heap[a] EXCEPT !.nodes = p], Damping).pageRankNew
                         = heap'[a].pageRankNew
      ]_vars

\* C19 witness: a graph with a link between two different nodes has been
\* through several passes.
C19_Witness ==
    \E a \in 1..Len(heap) :
        /\ heap[a].iters >= 2
        /\ \E m \in DOMAIN heap[a].adjacencyList :
              \E n \in Range(heap[a].adjacencyList[m]) : n # m

\* C20: from the barrier on no step changes a partition object: the merge
\* builds a new object, and main's normalization and the global run write
\* only the rank maps of that object, never its incoming lists, whose storage
\* the partitions' lists share.
C20_PartitionsUnchangedAfterBarrier ==
    [][PastBarrier =>
           /\ \A i \in 1..Len(subgraphs) : heap'[subgraphs[i]] = heap[subgraphs[i]]
           /\ globalGraph' \notin Range(subgraphs)
           /\ pc \in {"normalize", "pageRank"} =>
                 /\ heap'[globalGraph].adjacencyList = Merged.adjacencyList
                 /\ heap'[globalGraph].outLinks = Merged.outLinks
                 /\ heap'[globalGraph].nodes = Merged.nodes
      ]_vars

\* C20 witness: the run ended; the merged graph holds the incoming list of a
\* partition and ranks the list's node differently than that partition.
C20_Witness ==
    /\ pc = "done"
    /\ Merged.iters >= 2
    /\ \E i \in 1..Len(subgraphs) : \E u \in DOMAIN Partition(i).adjacencyList :
          /\ u \in DOMAIN Merged.adjacencyList
          /\ Merged.adjacencyList[u] = Partition(i).adjacencyList[u]
          /\ Merged.pageRankNew[u] # Partition(i).pageRankNew[u]

\* The graph at address a is at or past a convergence test of its run.
Tested(a) == heap[a].iters >= 1

\* C21: at every convergence test, of a partition or of the merged graph,
\* pageRankOld and pageRankNew have the same key set, the set of nodes, so
\* distance does not return MaxFloat32; the rank map covers the nodes from
\* the start of each run on.
C21_RankKeysAreNodes ==
    /\ \A a \in 1..Len(heap) :
          Tested(a) =>
              /\ DOMAIN heap[a].pageRankOld = Range(heap[a].nodes)
              /\ DOMAIN heap[a].pageRankNew = Range(heap[a].nodes)
              /\ distance(heap[a].pageRankOld, heap[a].pageRankNew) # MaxFloat32
    /\ \A t \in 1..Len(tasks) :
          tasks[t].pc # "init" =>
              DOMAIN heap[tasks[t].arg].pageRankNew = Range(heap[tasks[t].arg].nodes)
    /\ globalGraph # 0 => DOMAIN Merged.pageRankNew = Range(Merged.nodes)

\* C21 witness: the global run has made several passes on a merged graph of
\* several nodes, merged from a partition that holds a node it does not own.
C21_Witness ==
    /\ pc = "done"
    /\ Merged.iters >= 2
    /\ Len(Merged.nodes) >= 2
    /\ \E i \in 1..Len(subgraphs) : \E u \in Range(Partition(i).nodes) :
          ~isDomain(u, domains[i])

NoDuplicates(seq) == \A i, j \in 1..Len(seq) : seq[i] = seq[j] => i = j

\* C22: the nodes sequence of every partition and of the merged graph has no
\* duplicates, whatever the edge stream and the partition order.
C22_NodesDistinct ==
    \A a \in 1..Len(heap) : NoDuplicates(heap[a].nodes)

\* C22 witness: a merged graph of partitions that share a node, from a file
\* with a self-loop and a repeated line.
C22_Witness ==
    /\ pc = "done"
    /\ \E u \in Range(Merged.nodes) : Cardinality(Holds(u)) >= 2
    /\ \E k \in 1..Len(edges) : edges[k].src = edges[k].dest
    /\ \E k, l \in 1..Len(edges) : k # l /\ edges[k] = edges[l]

\* The edges that the partition of domain takes from the first n lines.
IncludedUpTo(n, domain) ==
    {k \in 1..n : isDomain(edges[k].src, domain)}

\* The sum of the lengths of the incoming lists of g.
RECURSIVE ListLengths(_, _)
ListLengths(g, keys) ==
    IF keys = {} THEN 0
    ELSE LET k == CHOOSE x \in keys : TRUE
         IN  Len(g.adjacencyList[k]) + ListLengths(g, keys \ {k})

\* The sum of the outLinks entries of g.
RECURSIVE OutLinkSum(_, _)
OutLinkSum(g, keys) ==
    IF keys = {} THEN 0
    ELSE LET k == CHOOSE x \in keys : TRUE
         IN  g.outLinks[k] + OutLinkSum(g, keys \ {k})

\* Graph g counts the edge occurrences ks: per source, and in total.
CountsEdges(g, ks) ==
    /\ \A s \in Range(g.nodes) \cup DOMAIN g.outLinks :
          /\ Get(g.outLinks, s, 0) = Cardinality({k \in ks : edges[k].src = s})
          /\ Get(g.outLinks, s, 0) = InListCount(g, s)
    /\ OutLinkSum(g, DOMAIN g.outLinks) = Cardinality(ks)
    /\ ListLengths(g, DOMAIN g.adjacencyList) = Cardinality(ks)

\* C23: after each line processed by readDotFileByDomain, and by the
\* sequential readDotFile, outLinks[s] is the number of included edge
\* occurrences with source s and the number of occurrences of s in the
\* incoming lists, so both sums equal the number of included edges; the
\* partitions main holds are the graphs after the last line.
C23_OutLinksCountEdges ==
    /\ \A i \in 1..Len(subgraphs) :
          /\ \A n \in 0..Len(edges) :
                CountsEdges(readDotFileByDomain(SubSeq(edges, 1, n), domains[i]),
                            IncludedUpTo(n, domains[i]))
          /\ CountsEdges(Partition(i), IncludedUpTo(Len(edges), domains[i]))
    /\ pc = "read" =>
          \A n \in 0..Len(edges) :
              CountsEdges(readDotFile(SubSeq(edges, 1, n)), 1..n)

\* C23 witness: a partition was built from a file that repeats a line, so
\* that an outLinks entry is 2.
C23_Witness ==
    /\ pc = "launch"
    /\ \E i \in 1..Len(subgraphs) : \E s \in DOMAIN Partition(i).outLinks :
          /\ Partition(i).outLinks[s] = 2
          /\ \E k, l \in 1..Len(edges) : k # l /\ edges[k] = edges[l]

\* ------------------------------------------------------------ crawler properties
\* The workers are the goroutines that breadthFirst started, in start order;
\* each one calls f once on its url.
Started(url) == {w \in 1..Len(workers) : workers[w].url = url}

\* C24: in both crawlers, f is started at most once for each distinct URL over
\* the whole run, whatever lists the workers return and in whatever order
\* their results arrive.
C24_CrawlStartedOncePerUrl ==
    /\ \A url \in CrawlUrls : Cardinality(Started(url)) <= 1
    /\ \A w \in 1..Len(workers) : workers[w].url \in seen

\* build_dot_graph has run to its end; both URLs were crawled, the second one
\* found by the first, and a URL that was crawled before came back in a list.
C24_Witness ==
    /\ prog = "build_dot_graph" /\ cpc = "done"
    /\ Len(workers) = 2 /\ round = 3
    /\ \E w \in 1..2 : \E k \in 1..Len(workers[w].list) :
          workers[w].list[k] = workers[1].url

\* The same in concurrent.go, over two rounds.
C24_WitnessConcurrent ==
    /\ prog = "concurrent" /\ cpc = "done"
    /\ Len(workers) = 2 /\ round = 2
    /\ \E k \in 1..Len(workers[2].list) : workers[2].list[k] \in seen

\* The file that holds, for the first n receipts, the edges from the URL of
\* the worker whose list was received to the links of that list.
RECURSIVE EdgesOfReceipts(_)
EdgesOfReceipts(n) ==
    IF n = 0 THEN <<>>
    ELSE writeToFile(EdgesOfReceipts(n - 1), workers[pairs[n].first].url,
                     workers[pairs[n].first].list)

\* C25: in build_dot_graph, for every interleaving of the workers, each list
\* received on c is paired with the origin received next on u from the same
\* worker, so every edge in the file has as its source the URL whose crawl
\* produced its destination.
C25_ListPairedWithItsOrigin ==
    prog = "build_dot_graph" =>
        /\ \A n \in 1..Len(pairs) : pairs[n].first = pairs[n].second
        /\ file = EdgesOfReceipts(Len(pairs))

\* Two workers of one round, with different non-empty lists; the worker that
\* was started last was received first.
C25_Witness ==
    /\ prog = "build_dot_graph" /\ cpc = "recv_c" /\ round = 0
    /\ Len(pairs) = 2 /\ pairs[1].first = 2 /\ pairs[2].first = 1
    /\ workers[1].list # <<>> /\ workers[2].list # <<>>
    /\ workers[1].list # workers[2].list
    /\ Len(file) = Len(workers[1].list) + Len(workers[2].list)

\* The workers that still have their count to send, and those that have
\* nothing left to send.
Unsent == {w \in 1..Len(workers) : "c" \notin workers[w].sent}
Finished(w) == "c" \in workers[w].sent /\ workers[w].next > Len(workers[w].list)

\* C26: in concurrent.go, for every interleaving, a round receives one count
\* per worker it launched, each followed by exactly that worker's strings; main
\* never waits for a send that no worker can make; breadthFirst returns after
\* at most depth rounds, and then no worker is left with a send to make.
C26_CountThenItsStrings ==
    prog = "concurrent" =>
        /\ \A n \in 1..Len(pairs) : pairs[n].first = pairs[n].second
        /\ cpc = "recv_str" =>
              /\ retLen = Len(workers[cur].list)
              /\ workers[cur].next = strs + 1
              /\ Cardinality(Unsent) = length - got - 1
              /\ \A w \in 1..Len(workers) : w = cur \/ w \in Unsent \/ Finished(w)
              /\ strs < retLen => "c" \in workers[cur].sent
        /\ cpc = "recv_c" =>
              /\ Cardinality(Unsent) = length - got
              /\ \A w \in 1..Len(workers) : w \in Unsent \/ Finished(w)
        /\ cpc \in {"head", "done"} => \A w \in 1..Len(workers) : Finished(w)
        /\ round <= depth
        /\ cpc = "done" => round = depth

\* Two workers of one round with two strings each, the worker started last
\* received first, and a second round in which every item was crawled before.
C26_Witness ==
    /\ prog = "concurrent" /\ cpc = "done" /\ depth = 2
    /\ Len(workers) = 2 /\ Len(pairs) = 4
    /\ pairs[1].first = 2 /\ pairs[2].first = 2
    /\ pairs[3].first = 1 /\ pairs[4].first = 1
    /\ workers[1].list # workers[2].list

====
